---- MODULE Spec2Model ----
(***************************************************************************)
(* Sprite layer / y-sort depth extraction of play-nice                     *)
(* (src/src/render_layers.rs, src/src/sprite_render_layers.rs).            *)
(*                                                                         *)
(* A frame is: the host mutates the scene, extract_sprites fills the       *)
(* frame's ExtractedSprites, update_sprite_z_coordinate rewrites the Z of  *)
(* every tagged extracted sprite, queue_sprites consumes them.             *)
(*                                                                         *)
(* Depths are f32 in the source.  They are modelled as exact rationals     *)
(* [num, den] (den > 0): base depths are integers and the y-sort offset    *)
(* is i * (1 / N), so base + i/N = (base * N + i) / N.                     *)
(***************************************************************************)
EXTENDS Integers, Sequences, FiniteSets, TLC

\* Number of entities of the scene (entity identifiers are 1..NumEntities).
NumEntities == 2
\* World Y coordinates are drawn from 0..MaxY.
MaxY == 1

\* The entities the scene of Spec is built with.
SceneEntities == 1..NumEntities
Ys == 0..MaxY
\* Scene Z of a transform: zero, or manually set to a non-zero value.
Zs == {0, 5}

VARIABLES
    layer,              \* Entity -> RenderLayers component, or NoLayer
    pos_y,              \* Entity -> GlobalTransform.translation().y
    pos_z,              \* Entity -> GlobalTransform.translation().z
    has_sprite,         \* Entity -> BOOLEAN: extract_sprites extracts it
    y_sort,             \* SpriteLayerOptions.y_sort
    extracted_sprites,  \* ExtractedSprites.sprites: entity -> transform
    warnings,           \* Entity -> number of warn! lines of this frame
    all_entities,       \* map_z_indices: the vector after par_sort_unstable
    z_index_map,        \* map_z_indices: the returned HashMap<Entity, f32>
    pc,                 \* position in the frame pipeline
    last_mode           \* history: mode of the last completed frame
                        \* (recorded under SpecFrames only)

VARIABLES
    input_devices,      \* Input<KeyCode>, Input<GamepadButton>, Axis<GamepadAxis>
    player_controls,    \* GameState.player_controls: PlayerIndex -> PlayerControls
    supervisor,         \* the Supervisor component (and its facing direction)
    score_config,       \* base score, multiplier increase and decrease rate
    player_scores,      \* GameState.player_scores: PlayerIndex -> PlayerScoreData
    package_wave_timer, \* GameState.package_wave_timer
    conveyors,          \* conveyor entity -> Conveyor component
    packages,           \* package entity -> parent, layers (or not spawned)
    players,            \* player entity -> Player component
    collision_events,   \* Events<CollisionEvent> of this run of FixedUpdate
    commands,           \* deferred Commands of this run, in system order
    gpc,                \* the next system of the FixedUpdate chain
    panicked,           \* a system panicked (unwrap on None, usize underflow)
    wave_spawned        \* history: spawn_package_wave has spawned a wave

sprite_vars == << layer, pos_y, pos_z, has_sprite, y_sort, extracted_sprites,
                  warnings, all_entities, z_index_map, pc, last_mode >>

game_vars == << input_devices, player_controls, supervisor, score_config,
                player_scores, package_wave_timer, conveyors, packages,
                players, collision_events, commands, gpc, panicked,
                wave_spawned >>

vars == << sprite_vars, game_vars >>

\* The entities of the scene: the rows of the component table.
Entity == DOMAIN layer

scene == << layer, pos_y, pos_z, has_sprite >>

-----------------------------------------------------------------------------
(* render_layers.rs *)

\* enum EntityLayer, in declaration order (the derived Ord).
EntityLayer == << "Background", "Debugging", "Furniture", "Object", "Accent",
                  "Player", "HeldObject", "OfficeLevelFurniture",
                  "OfficeLevelAccent", "SuperVisor" >>

EntityLayers == { EntityLayer[i] : i \in DOMAIN EntityLayer }

\* Position of a layer in the enum (the order BTreeSet iterates in).
LayerOrd(l) == CHOOSE i \in DOMAIN EntityLayer : EntityLayer[i] = l

\* enum RenderLayers { Single(EntityLayer), Multi(BTreeSet<EntityLayer>) }
Single(l) == [kind |-> "Single", layers |-> {l}]
Multi(S) == [kind |-> "Multi", layers |-> S]
\* An entity without the RenderLayers component.
NoLayer == [kind |-> "None", layers |-> {}]

as_z_coordinate_internal_Duplicate(l) ==
    CASE l = "Background" -> -1
      [] l = "Debugging" -> 0
      [] l = "Furniture" -> 1
      [] l = "Object" -> 2
      [] l = "Accent" -> 3
      [] l = "Player" -> 20
      [] l = "HeldObject" -> 20
      [] l = "OfficeLevelFurniture" -> 22
      [] l = "OfficeLevelAccent" -> 23
      [] l = "SuperVisor" -> 24

as_z_coordinate_internal(l) ==
    CASE l = "Background" -> -1
      [] l = "Debugging" -> 0
      [] l = "Furniture" -> 1
      [] l = "Object" -> 2
      [] l = "Accent" -> 3
      [] l = "Player" -> 20
      [] l = "HeldObject" -> 21
      [] l = "OfficeLevelFurniture" -> 22
      [] l = "OfficeLevelAccent" -> 23
      [] l = "SuperVisor" -> 24

\* The elements of a BTreeSet<EntityLayer> in iteration (enum) order.
RECURSIVE BTreeSetIter(_)
BTreeSetIter(S) ==
    IF S = {} THEN << >>
    ELSE LET first == CHOOSE l \in S : \A m \in S : LayerOrd(l) <= LayerOrd(m)
         IN << first >> \o BTreeSetIter(S \ {first})

\* Iterator::max_by(|a, b| z(a).total_cmp(&z(b))): a fold that keeps the
\* later element unless the kept one compares Greater; None when empty.
RECURSIVE MaxByFold(_, _)
MaxByFold(best, rest) ==
    IF rest = << >> THEN best
    ELSE LET x == Head(rest)
         IN MaxByFold(IF as_z_coordinate_internal(best) > as_z_coordinate_internal(x)
                      THEN best ELSE x,
                      Tail(rest))

min_by_z_coordinate(tag) ==
    IF tag.kind = "Single"
    THEN as_z_coordinate_internal(CHOOSE l \in tag.layers : TRUE)
    ELSE IF tag.layers = {} THEN 0
    ELSE LET d == { as_z_coordinate_internal(l) : l \in tag.layers }
         IN CHOOSE x \in d : \A y \in d : x <= y

\* impl LayerIndex for RenderLayers: as_z_coordinate(&self) -> f32
as_z_coordinate(tag) ==
    IF tag.kind = "Single"
    THEN as_z_coordinate_internal(CHOOSE l \in tag.layers : TRUE)
    ELSE LET it == BTreeSetIter(tag.layers)
         IN IF it = << >> THEN 0   \* .map_or(0., ...)
            ELSE as_z_coordinate_internal(MaxByFold(Head(it), Tail(it)))

-----------------------------------------------------------------------------
(* The layer tags the host attaches in this model. *)

SingleLayers == {"Player"}
MultiSets == { {}, {"Background", "Object"}, {"Object", "HeldObject"} }
LayerTags == { Single(l) : l \in SingleLayers } \cup { Multi(S) : S \in MultiSets }

-----------------------------------------------------------------------------
(* sprite_render_layers.rs *)

\* A depth (f32) as an exact rational.
Depth(n, d) == [num |-> n, den |-> d]
DepthLess(a, b) == a.num * b.den < b.num * a.den
DepthEq(a, b) == a.num * b.den = b.num * a.den

Range(s) == { s[i] : i \in DOMAIN s }

\* All orders in which a query can enumerate the items of S.
Perms(S) ==
    { s \in [1..Cardinality(S) -> S] :
        \A i, j \in DOMAIN s : i # j => s[i] # s[j] }

transform_query_WithoutFilter == Entity

transform_query_OnlyExtracted ==
    { e \in Entity : layer[e] # NoLayer /\ e \in DOMAIN extracted_sprites }

\* Query<(Entity, &GlobalTransform), With<Layer>>
transform_query == { e \in Entity : layer[e] # NoLayer }

\* .map(|(entity, transform)| (ZIndexSortKey::new(transform), entity))
\* An element is << y, entity >>; ZIndexSortKey wraps Reverse(OrderedFloat(y)).
SortItem(e) == << pos_y[e], e >>

SortItemLess_Ascending(a, b) ==
    \/ a[1] < b[1]
    \/ a[1] = b[1] /\ a[2] < b[2]

SortItemLess_KeyOnly(a, b) == a[1] > b[1]

\* Derived Ord of (ZIndexSortKey, Entity): the key first (Reverse: the greater
\* y is the lesser key), then the entity.
SortItemLess(a, b) ==
    \/ a[1] > b[1]
    \/ a[1] = b[1] /\ a[2] < b[2]

\* par_sort_unstable: some permutation of v that is sorted; items that
\* compare equal may end in any order.
par_sort_unstable(v) ==
    { s \in Perms(Range(v)) :
        \A i, j \in DOMAIN s : i < j => ~SortItemLess(s[j], s[i]) }

depth_with_offset_Unscaled(base, i, n) == Depth(base + i, 1)

depth_with_offset_LenMinusOne(base, i, n) ==
    IF n = 1 THEN Depth(base, 1) ELSE Depth(base * (n - 1) + i, n - 1)

\* layer.as_z_coordinate() + i as f32 * scale_factor, scale_factor = 1.0 / n
depth_with_offset(base, i, n) == Depth(base * n + i, n)

IndexOf(s, e) == CHOOSE i \in DOMAIN s : s[i][2] = e

collect_z_indices_PerLayer(sorted) ==
    [ e \in { it[2] : it \in Range(sorted) } |->
        LET i == IndexOf(sorted, e)
            r == Cardinality({ j \in 1..(i - 1) :
                     as_z_coordinate(layer[sorted[j][2]]) = as_z_coordinate(layer[e]) })
        IN depth_with_offset(as_z_coordinate(layer[e]), r, Len(sorted)) ]

\* all_entities.into_iter().enumerate().map(...).collect::<HashMap<_, _>>()
collect_z_indices(sorted) ==
    [ e \in { it[2] : it \in Range(sorted) } |->
        depth_with_offset(as_z_coordinate(layer[e]),
                          IndexOf(sorted, e) - 1, Len(sorted)) ]

should_warn_After(sprite, z) == z.num # 0

\* if sprite.transform.translation().z != 0.0 { warn!(...) }
should_warn(sprite, z) == sprite.z.num # 0

set_sprite_coordinate_KeepZ(sprite, z) ==
    IF sprite.z.num # 0 THEN sprite ELSE [sprite EXCEPT !.z = z]

set_sprite_coordinate_FromZ(sprite, z) == [x |-> 0, y |-> 0, z |-> z]

\* affine.translation.z = z; sprite.transform = GlobalTransform::from(affine)
set_sprite_coordinate(sprite, z) == [sprite EXCEPT !.z = z]

static_depth_WithRank(e) ==
    depth_with_offset(as_z_coordinate(layer[e]), e - 1, NumEntities)

\* static mode: set_sprite_coordinate(sprite, layer.as_z_coordinate())
static_depth(e) == Depth(as_z_coordinate(layer[e]), 1)

write_sprites_OrDefault(sprites, zs) ==
    [ e \in DOMAIN sprites |->
        set_sprite_coordinate(sprites[e], IF e \in DOMAIN zs THEN zs[e] ELSE Depth(0, 1)) ]

\* The loop over extracted_sprites.sprites.iter_mut(): zs maps the entities
\* whose sprite is written to the depth written.
write_sprites(sprites, zs) ==
    [ e \in DOMAIN sprites |->
        IF e \in DOMAIN zs THEN set_sprite_coordinate(sprites[e], zs[e])
        ELSE sprites[e] ]

count_warnings(sprites, zs, w) ==
    [ e \in Entity |->
        IF e \in DOMAIN sprites /\ e \in DOMAIN zs /\ should_warn(sprites[e], zs[e])
        THEN w[e] + 1 ELSE w[e] ]

Restrict(f, S) == [ e \in (DOMAIN f) \cap S |-> f[e] ]

-----------------------------------------------------------------------------
(* The frame pipeline *)

NoWarnings == [ e \in Entity |-> 0 ]

SpriteLayerOptions_derived_default == FALSE

\* impl Default for SpriteLayerOptions: Self { y_sort: true }
SpriteLayerOptions_default == TRUE

\* The plugin on its own: an app without the game's resources and entities.
NoGame ==
    /\ input_devices = << >>
    /\ player_controls = << >>
    /\ supervisor = << >>
    /\ score_config = << >>
    /\ player_scores = << >>
    /\ package_wave_timer = << >>
    /\ conveyors = << >>
    /\ packages = << >>
    /\ players = << >>
    /\ collision_events = << >>
    /\ commands = << >>
    /\ gpc = "none"
    /\ panicked = FALSE
    /\ wave_spawned = FALSE

Init ==
    /\ layer = [ e \in SceneEntities |-> NoLayer ]
    /\ pos_y = [ e \in SceneEntities |-> 0 ]
    /\ pos_z = [ e \in SceneEntities |-> 0 ]
    /\ has_sprite = [ e \in SceneEntities |-> TRUE ]
    /\ y_sort = SpriteLayerOptions_default
    /\ extracted_sprites = << >>
    /\ warnings = NoWarnings
    /\ all_entities = << >>
    /\ z_index_map = << >>
    /\ pc = "host"
    /\ last_mode = "none"
    /\ NoGame

frame == << extracted_sprites, warnings, all_entities, z_index_map, pc, last_mode >>

\* Host: attach, replace or remove the RenderLayers component of an entity.
SetLayer(e, tag) ==
    /\ pc = "host"
    /\ layer' = [layer EXCEPT ![e] = tag]
    /\ UNCHANGED << pos_y, pos_z, has_sprite, y_sort, frame, game_vars >>

\* Host: move an entity vertically.
SetY(e, y) ==
    /\ pc = "host"
    /\ pos_y' = [pos_y EXCEPT ![e] = y]
    /\ UNCHANGED << layer, pos_z, has_sprite, y_sort, frame, game_vars >>

\* Host: give the transform of an entity a Z by hand.
SetZ(e, z) ==
    /\ pc = "host"
    /\ pos_z' = [pos_z EXCEPT ![e] = z]
    /\ UNCHANGED << layer, pos_y, has_sprite, y_sort, frame, game_vars >>

\* Host: add or remove the (visible) sprite of an entity.
SetSprite(e, b) ==
    /\ pc = "host"
    /\ has_sprite' = [has_sprite EXCEPT ![e] = b]
    /\ UNCHANGED << layer, pos_y, pos_z, y_sort, frame, game_vars >>

\* Host: mutate the SpriteLayerOptions resource.
SetYSort(b) ==
    /\ pc = "host"
    /\ y_sort' = b
    /\ UNCHANGED << scene, frame, game_vars >>

\* bevy::sprite::extract_sprites: clear, then one ExtractedSprite per visible
\* sprite, its transform copied from the entity's GlobalTransform.
extract_sprites ==
    /\ pc = "host"
    /\ extracted_sprites' =
           [ e \in { e \in Entity : has_sprite[e] } |->
               [x |-> e, y |-> pos_y[e], z |-> Depth(pos_z[e], 1)] ]
    /\ warnings' = NoWarnings
    /\ all_entities' = << >>
    /\ z_index_map' = << >>
    /\ pc' = "extracted"
    /\ UNCHANGED << scene, y_sort, last_mode, game_vars >>

\* map_z_indices, from a query that enumerates in the order v.
map_z_indices(v) ==
    \E sorted \in par_sort_unstable(v) :
        /\ all_entities' = sorted
        /\ z_index_map' = collect_z_indices(sorted)

\* The depth goes to the scene's transform instead of the extracted sprite.
update_sprite_z_coordinate_WritesScene ==
    /\ pc = "extracted"
    /\ IF y_sort
       THEN \E v \in Perms({ SortItem(e) : e \in transform_query }) : map_z_indices(v)
       ELSE all_entities' = << >> /\ z_index_map' = << >>
    /\ pos_z' = [ e \in Entity |->
                    IF e \in DOMAIN extracted_sprites /\ layer[e] # NoLayer
                    THEN as_z_coordinate(layer[e]) ELSE pos_z[e] ]
    /\ pc' = "updated"
    /\ UNCHANGED << layer, pos_y, has_sprite, y_sort, last_mode,
                    extracted_sprites, warnings, game_vars >>

update_sprite_z_coordinate ==
    /\ pc = "extracted"
    /\ IF y_sort
       THEN /\ \E v \in Perms({ SortItem(e) : e \in transform_query }) :
                   map_z_indices(v)
            /\ LET zs == Restrict(z_index_map', DOMAIN extracted_sprites)
               IN /\ extracted_sprites' = write_sprites(extracted_sprites, zs)
                  /\ warnings' = count_warnings(extracted_sprites, zs, warnings)
       ELSE /\ all_entities' = << >>
            /\ z_index_map' = << >>
            /\ LET zs == [ e \in { e \in DOMAIN extracted_sprites : layer[e] # NoLayer }
                             |-> static_depth(e) ]
               IN /\ extracted_sprites' = write_sprites(extracted_sprites, zs)
                  /\ warnings' = count_warnings(extracted_sprites, zs, warnings)
    /\ pc' = "updated"
    /\ UNCHANGED << scene, y_sort, last_mode, game_vars >>

\* bevy::sprite::queue_sprites consumes the frame's extracted sprites.
queue_sprites_body ==
    /\ pc = "updated"
    /\ extracted_sprites' = << >>
    /\ warnings' = NoWarnings
    /\ all_entities' = << >>
    /\ z_index_map' = << >>
    /\ pc' = "host"
    /\ UNCHANGED << scene, y_sort, game_vars >>

queue_sprites_Unordered ==
    /\ pc \in {"extracted", "updated"}
    /\ extracted_sprites' = << >>
    /\ warnings' = NoWarnings
    /\ all_entities' = << >>
    /\ z_index_map' = << >>
    /\ pc' = "host"
    /\ UNCHANGED << scene, y_sort, last_mode, game_vars >>

queue_sprites == queue_sprites_body /\ UNCHANGED last_mode

Next ==
    \/ \E e \in Entity, tag \in LayerTags \cup {NoLayer} : SetLayer(e, tag)
    \/ \E e \in Entity, y \in Ys : SetY(e, y)
    \/ \E e \in Entity, z \in Zs : SetZ(e, z)
    \/ \E e \in Entity, b \in BOOLEAN : SetSprite(e, b)
    \/ \E b \in BOOLEAN : SetYSort(b)
    \/ extract_sprites
    \/ update_sprite_z_coordinate
    \/ queue_sprites

Spec == Init /\ [][Next]_vars

-----------------------------------------------------------------------------
(* Frames over a scene that is fixed at start-up: three entities at world   *)
(* Y = 10, 5 and 0 in some assignment; the host only changes the mode       *)
(* between frames, and the mode of each completed frame is recorded.        *)

FrameEntities == {1, 2, 3}
FrameYs == {0, 5, 10}
FrameTags == { NoLayer, Single("Player"), Multi({"Object", "HeldObject"}) }

InitFrames ==
    /\ layer \in [ FrameEntities -> FrameTags ]
    /\ pos_y \in { f \in [ FrameEntities -> FrameYs ] :
                      \A a, b \in FrameEntities : a # b => f[a] # f[b] }
    /\ pos_z \in [ FrameEntities -> Zs ]
    /\ has_sprite \in [ FrameEntities -> BOOLEAN ]
    /\ y_sort = SpriteLayerOptions_default
    /\ extracted_sprites = << >>
    /\ warnings = NoWarnings
    /\ all_entities = << >>
    /\ z_index_map = << >>
    /\ pc = "host"
    /\ last_mode = "none"
    /\ NoGame

\* queue_sprites, recording the mode the frame was computed in.
queue_sprites_recorded ==
    /\ queue_sprites_body
    /\ last_mode' = IF y_sort THEN "dynamic" ELSE "static"

NextFrames ==
    \/ \E b \in BOOLEAN : SetYSort(b)
    \/ extract_sprites
    \/ update_sprite_z_coordinate
    \/ queue_sprites_recorded

SpecFrames == InitFrames /\ [][NextFrames]_vars

-----------------------------------------------------------------------------
(* Reference notions used by the properties *)

\* Entities that carry a layer tag.
Tagged == { e \in Entity : layer[e] # NoLayer }

\* Extracted sprites that carry a layer tag: the sprites the system writes.
Written == (DOMAIN extracted_sprites) \cap Tagged

\* An entity has an effective layer when its tag names at least one layer.
HasEffectiveLayer(e) == e \in Tagged /\ layer[e].layers # {}

SetMax(D) == CHOOSE x \in D : \A y \in D : y <= x

\* Base depth of the effective layer: the catalog's maximum over the tag's layers.
EffectiveBase(e) == SetMax({ as_z_coordinate_internal(l) : l \in layer[e].layers })

\* e comes before f in the ranking: greater Y first, then the lesser entity.
RankedBefore(e, f) ==
    \/ pos_y[e] > pos_y[f]
    \/ pos_y[e] = pos_y[f] /\ e < f

\* 0-based position of e among all tagged entities.
GlobalRank(e) == Cardinality({ f \in Tagged : RankedBefore(f, e) })

DynamicDone == pc = "updated" /\ y_sort
StaticDone == pc = "updated" /\ ~y_sort

-----------------------------------------------------------------------------
C4_StaticPassthrough ==
    StaticDone =>
        /\ \A e \in Written :
              extracted_sprites[e].z = Depth(as_z_coordinate(layer[e]), 1)
        /\ \A e1, e2 \in Written :
              layer[e1] = layer[e2] => extracted_sprites[e1].z = extracted_sprites[e2].z

\* Two written sprites with the same tag at different Y.
C4_Witness ==
    /\ StaticDone
    /\ \E e1, e2 \in Written :
          /\ e1 # e2 /\ layer[e1] = layer[e2] /\ pos_y[e1] # pos_y[e2]
          /\ extracted_sprites[e1].z.num # 0
          /\ extracted_sprites[e1].z = extracted_sprites[e2].z

\* C5: the depth map of a dynamic frame is the only map any evaluation of the
\* same snapshot can produce: whatever order the query enumerates in and
\* whichever sorted arrangement the unstable sort returns.
C5_Determinism ==
    DynamicDone =>
        \A v \in Perms({ SortItem(e) : e \in transform_query }) :
            \A s \in par_sort_unstable(v) :
                collect_z_indices(s) = z_index_map

\* A snapshot in which two tagged entities have the same Y.
C5_Witness ==
    /\ DynamicDone
    /\ \E e1, e2 \in DOMAIN z_index_map : e1 # e2 /\ pos_y[e1] = pos_y[e2]

\* C6: in dynamic mode the depth map has an entry for exactly the tagged
\* entities, and the entry of e is base depth of its tag + i/N with i the
\* 0-based global position of e among all N tagged entities by descending Y
\* (entity identifier on equal Y).
C6_GlobalRankReference ==
    DynamicDone =>
        /\ DOMAIN z_index_map = Tagged
        /\ \A e \in Tagged :
              LET N == Cardinality(Tagged)
              IN z_index_map[e] = Depth(as_z_coordinate(layer[e]) * N + GlobalRank(e), N)

\* An entity that is alone in its layer and still has a non-zero offset.
C6_Witness ==
    /\ DynamicDone
    /\ \E e \in Tagged :
          /\ \A f \in Tagged \ {e} : as_z_coordinate(layer[f]) # as_z_coordinate(layer[e])
          /\ GlobalRank(e) > 0
          /\ z_index_map[e].num = as_z_coordinate(layer[e]) * z_index_map[e].den + GlobalRank(e)

\* C7: the comparison that ranks the snapshot is a strict total order on it
\* (irreflexive, transitive, any two distinct items comparable one way only),
\* it orders by descending Y and then by entity identifier, and the sorted
\* vector follows it.
C7_StrictTotalOrder ==
    DynamicDone =>
        LET items == Range(all_entities)
        IN /\ items = { SortItem(e) : e \in Tagged }
           /\ \A a \in items : ~SortItemLess(a, a)
           /\ \A a, b \in items :
                 a # b => (SortItemLess(a, b) /\ ~SortItemLess(b, a))
                          \/ (SortItemLess(b, a) /\ ~SortItemLess(a, b))
           /\ \A a, b, c \in items :
                 SortItemLess(a, b) /\ SortItemLess(b, c) => SortItemLess(a, c)
           /\ \A e, f \in Tagged :
                 RankedBefore(e, f) <=> SortItemLess(SortItem(e), SortItem(f))
           /\ \A e, f \in Tagged :
                 RankedBefore(e, f) => IndexOf(all_entities, e) < IndexOf(all_entities, f)

\* Two tagged entities with identical Y, ranked by identifier.
C7_Witness ==
    /\ DynamicDone
    /\ \E e, f \in Tagged :
          /\ e < f /\ pos_y[e] = pos_y[f]
          /\ IndexOf(all_entities, e) < IndexOf(all_entities, f)

\* C8: as_z_coordinate of a Multi with a non-empty set is the maximum base
\* depth of its layers, of a Single the base depth of its layer; static mode
\* writes that value.  Multi({Background, Object}) gives 2.
C8_MultiTagMaximum ==
    /\ \A e \in Tagged :
          layer[e].layers # {} =>
              /\ as_z_coordinate(layer[e]) = EffectiveBase(e)
              /\ (StaticDone /\ e \in Written)
                    => extracted_sprites[e].z = Depth(EffectiveBase(e), 1)
    /\ \A e \in Tagged :
          layer[e] = Multi({"Background", "Object"}) => as_z_coordinate(layer[e]) = 2

\* A sprite tagged Multi({Background, Object}) written in static mode.
C8_Witness ==
    /\ StaticDone
    /\ \E e \in Written :
          /\ layer[e] = Multi({"Background", "Object"})
          /\ extracted_sprites[e].z = Depth(2, 1)

\* C9: an empty Multi set is rejected at construction, so no entity with an
\* empty Multi set ever takes part in depth assignment or is given a default
\* depth.
C9_EmptyMultiRejected ==
    \A e \in Entity :
        layer[e] = Multi({}) =>
            /\ e \notin DOMAIN z_index_map
            /\ ~(pc = "updated" /\ e \in DOMAIN extracted_sprites
                    /\ extracted_sprites[e].z # Depth(pos_z[e], 1))

\* C10: at the end of the write-back of a frame, the number of warnings for
\* an entity is 1 when its sprite was extracted, carries a tag and had a
\* non-zero Z before the system ran, and 0 otherwise.
C10_WarningExactlyOnce ==
    pc = "updated" =>
        \A e \in Entity :
            warnings[e] = IF e \in Written /\ pos_z[e] # 0 THEN 1 ELSE 0

\* One written sprite had Z = 5 and warned once; another sprite with non-zero
\* Z carries no tag and did not warn.
C10_Witness ==
    /\ pc = "updated"
    /\ \E e, f \in DOMAIN extracted_sprites :
          /\ e \in Written /\ pos_z[e] = 5 /\ warnings[e] = 1
          /\ f \notin Tagged /\ pos_z[f] = 5 /\ warnings[f] = 0

-----------------------------------------------------------------------------
(* Reference depth of a frame *)

\* The depth the frame's mode prescribes for a tagged entity: its base depth
\* in static mode, base depth + global rank / N in dynamic mode.
FrameDepth(e) ==
    IF y_sort
    THEN LET N == Cardinality(Tagged)
         IN Depth(as_z_coordinate(layer[e]) * N + GlobalRank(e), N)
    ELSE Depth(as_z_coordinate(layer[e]), 1)

\* The transform extract_sprites copied from the scene.
SceneTransform(e) == [x |-> e, y |-> pos_y[e], z |-> Depth(pos_z[e], 1)]

\* The y-sort offset an entry of the depth map carries: depth - base depth.
OffsetOf(e) ==
    Depth(z_index_map[e].num - as_z_coordinate(layer[e]) * z_index_map[e].den,
          z_index_map[e].den)

-----------------------------------------------------------------------------
\* C11: after the write-back every tagged extracted sprite holds the depth
\* computed for it in this frame, also when its Z was non-zero before (a
\* warning was emitted); the warning stops nothing.
C11_AlwaysOverwritten ==
    pc = "updated" =>
        \A e \in Written : extracted_sprites[e].z = FrameDepth(e)

\* One sprite had Z = 5, warned and was overwritten; another sprite of the
\* same frame received its depth too.
C11_Witness ==
    /\ pc = "updated"
    /\ \E e, f \in Written :
          /\ e # f
          /\ pos_z[e] = 5 /\ warnings[e] = 1
          /\ extracted_sprites[e].z = FrameDepth(e)
          /\ ~DepthEq(extracted_sprites[e].z, Depth(5, 1))
          /\ extracted_sprites[f].z = FrameDepth(f)
          /\ ~DepthEq(extracted_sprites[f].z, Depth(pos_z[f], 1))

\* C12: the write-back step keeps the set of extracted sprites and the X and
\* Y translation of every one of them, in both modes.
C12_OnlyZChanges ==
    [][ pc = "extracted" =>
          /\ DOMAIN extracted_sprites' = DOMAIN extracted_sprites
          /\ \A e \in DOMAIN extracted_sprites :
                /\ extracted_sprites'[e].x = extracted_sprites[e].x
                /\ extracted_sprites'[e].y = extracted_sprites[e].y ]_vars

\* A sprite with non-zero X and Y whose Z was changed by the write-back.
C12_Witness ==
    /\ pc = "updated"
    /\ \E e \in Written :
          /\ extracted_sprites[e].y = 1 /\ extracted_sprites[e].x = e
          /\ extracted_sprites[e].z # Depth(pos_z[e], 1)

\* C13: an entity without a layer tag has no entry in the depth map, is not
\* among the sorted items (so it is not counted in N and has no rank), gets no
\* warning, and its extracted sprite keeps the whole transform it was
\* extracted with.
C13_UntaggedNotParticipants ==
    pc = "updated" =>
        /\ \A e \in Entity \ Tagged :
              /\ e \notin DOMAIN z_index_map
              /\ e \notin { it[2] : it \in Range(all_entities) }
              /\ warnings[e] = 0
              /\ e \in DOMAIN extracted_sprites
                    => extracted_sprites[e] = SceneTransform(e)
        /\ y_sort => Len(all_entities) = Cardinality(Tagged)

\* An untagged sprite with Z = 5 is left alone in a dynamic frame whose one
\* tagged sprite has N = 1.
C13_Witness ==
    /\ DynamicDone
    /\ \E e \in (DOMAIN extracted_sprites) \ Tagged, f \in Written :
          /\ pos_z[e] = 5
          /\ extracted_sprites[e].z = Depth(5, 1)
          /\ pos_y[e] > pos_y[f]
          /\ z_index_map[f].den = 1

\* The tagged entities are exactly three entities tagged Player.
ThreePlayers ==
    /\ Cardinality(Entity) = 3
    /\ \A e \in Entity : layer[e] = Single("Player")

\* C14: when the tagged entities are exactly three Player entities at
\* Y = 10, 5 and 0, a dynamic frame gives them 20 + 0/3, 20 + 1/3 and 20 + 2/3
\* in that order, in the depth map and in their written sprites.
C14_ThreePlayersScenario ==
    (DynamicDone /\ ThreePlayers) =>
        \A e \in Entity :
            LET i == CASE pos_y[e] = 10 -> 0
                       [] pos_y[e] = 5 -> 1
                       [] pos_y[e] = 0 -> 2
            IN /\ DepthEq(z_index_map[e], Depth(20 * 3 + i, 3))
               /\ e \in DOMAIN extracted_sprites
                     => DepthEq(extracted_sprites[e].z, Depth(20 * 3 + i, 3))

\* The scenario with the entity identifiers in the opposite order of the Ys,
\* all three sprites written.
C14_Witness ==
    /\ DynamicDone /\ ThreePlayers
    /\ pos_y = << 0, 5, 10 >>
    /\ DOMAIN extracted_sprites = Entity
    /\ DepthEq(extracted_sprites[3].z, Depth(20, 1))
    /\ DepthEq(extracted_sprites[2].z, Depth(61, 3))
    /\ DepthEq(extracted_sprites[1].z, Depth(62, 3))

C16_EmptySnapshot ==
    /\ (pc = "extracted" /\ y_sort /\ Tagged = {}) => ENABLED update_sprite_z_coordinate
    /\ (DynamicDone /\ Tagged = {}) =>
          /\ z_index_map = << >>
          /\ all_entities = << >>
          /\ warnings = NoWarnings
          /\ \A e \in DOMAIN extracted_sprites :
                extracted_sprites[e] = SceneTransform(e)

\* A dynamic frame without tagged entities in which a sprite with Z = 5 was
\* extracted.
C16_Witness ==
    /\ DynamicDone /\ Tagged = {}
    /\ \E e \in DOMAIN extracted_sprites :
          pos_z[e] = 5 /\ extracted_sprites[e].z = Depth(5, 1)

\* C17: the flag starts as true; no step of the frame pipeline changes it;
\* and every tagged sprite of a completed write-back has the depth of the
\* mode the flag selects for that frame (all base depths when it is false,
\* all base + rank/N when it is true), whatever the mode of the frame before.
C17_ModeSwitch ==
    /\ y_sort = TRUE
    /\ [][ pc' # pc => y_sort' = y_sort ]_vars
    /\ [](pc = "updated" =>
            /\ \A e \in Written : extracted_sprites[e].z = FrameDepth(e)
            /\ IF y_sort THEN DOMAIN z_index_map = Tagged
                         ELSE z_index_map = << >>)

\* A static frame right after a dynamic frame: two written sprites, the one
\* that would be ranked last holding exactly its base depth.
C17_Witness ==
    /\ StaticDone /\ last_mode = "dynamic"
    /\ \E e, f \in Written :
          /\ e # f /\ GlobalRank(e) > 0
          /\ extracted_sprites[e].z = Depth(as_z_coordinate(layer[e]), 1)
          /\ extracted_sprites[f].z = Depth(as_z_coordinate(layer[f]), 1)

\* C18: no step of the frame pipeline changes the scene; the Z a frame's
\* sprite starts with is the scene's Z, never a depth of an earlier frame; so
\* an entity whose scene Z is 0 has no warning in any frame.
C18_OneWayDataFlow ==
    /\ [][ /\ pc' # pc => scene' = scene
           /\ (pc = "host" /\ pc' = "extracted") =>
                 \A e \in DOMAIN extracted_sprites' :
                     extracted_sprites'[e].z = Depth(pos_z[e], 1) ]_vars
    /\ [](\A e \in Entity : pos_z[e] = 0 => warnings[e] = 0)

\* A later frame (one frame was completed before) in which a sprite with
\* scene Z = 0 was written a non-zero depth without a warning.
C18_Witness ==
    /\ pc = "updated" /\ last_mode # "none"
    /\ \E e \in Written :
          /\ pos_z[e] = 0 /\ warnings[e] = 0
          /\ extracted_sprites[e].z.num # 0

\* C19: the write-back only runs on the extracted sprites of the frame (one
\* per visible sprite), and the queuing step only runs after the write-back,
\* when every tagged extracted sprite holds the frame's depth.
C19_PipelineOrdering ==
    [][ /\ pc' = "updated" =>
              /\ pc = "extracted"
              /\ DOMAIN extracted_sprites = { e \in Entity : has_sprite[e] }
        /\ (pc # "host" /\ pc' = "host") =>
              /\ pc = "updated"
              /\ DOMAIN extracted_sprites = { e \in Entity : has_sprite[e] }
              /\ \A e \in Written : extracted_sprites[e].z = FrameDepth(e) ]_vars

\* The state the queuing step reads: written sprites whose depth differs from
\* the Z they were extracted with.
C19_Witness ==
    /\ pc = "updated"
    /\ ENABLED queue_sprites
    /\ Cardinality(Written) >= 2
    /\ \A e \in Written : extracted_sprites[e].z # Depth(pos_z[e], 1)

\* C20: the base depth is defined on the ten layers and strictly increasing
\* along the declaration order of the enum (hence injective), and the base
\* depth of a non-empty tag is the base depth of its last layer in enum order.
C20_CatalogOrder ==
    /\ Len(EntityLayer) = 10
    /\ \A i, j \in DOMAIN EntityLayer :
          i < j => as_z_coordinate_internal(EntityLayer[i])
                     < as_z_coordinate_internal(EntityLayer[j])
    /\ \A e \in Tagged :
          layer[e].layers # {} =>
              LET last == CHOOSE l \in layer[e].layers :
                              \A m \in layer[e].layers : LayerOrd(m) <= LayerOrd(l)
              IN as_z_coordinate(layer[e]) = as_z_coordinate_internal(last)

\* A sprite tagged Multi({Object, HeldObject}) written the depth of
\* HeldObject, its last layer in enum order.
C20_Witness ==
    /\ StaticDone
    /\ \E e \in Written :
          /\ layer[e] = Multi({"Object", "HeldObject"})
          /\ extracted_sprites[e].z = Depth(as_z_coordinate_internal("HeldObject"), 1)

\* The largest offset of the frame's depth map (0 when the map is empty).
MaxOffset ==
    IF z_index_map = << >> THEN Depth(0, 1)
    ELSE LET e == CHOOSE e \in DOMAIN z_index_map :
                      \A f \in DOMAIN z_index_map : ~DepthLess(OffsetOf(e), OffsetOf(f))
         IN OffsetOf(e)

C22_RanksOverAllTagged ==
    DynamicDone =>
        LET N == Cardinality(Tagged)
        IN /\ DOMAIN z_index_map = Tagged
           /\ Len(all_entities) = N
           /\ \A j \in DOMAIN all_entities : layer[all_entities[j][2]] # NoLayer
           /\ DOMAIN extracted_sprites = { e \in Entity : has_sprite[e] }
           /\ \A e \in Written :
                 extracted_sprites[e].z =
                     Depth(as_z_coordinate(layer[e]) * N + GlobalRank(e), N)

\* Three tagged entities, the middle one of the ranking not extracted: the
\* written offsets are 0/3 and 2/3.
C22_Witness ==
    /\ DynamicDone
    /\ Cardinality(Tagged) = 3
    /\ \E e, f, g \in Tagged :
          /\ GlobalRank(e) = 0 /\ GlobalRank(f) = 1 /\ GlobalRank(g) = 2
          /\ Written = {e, g}
          /\ f \in DOMAIN z_index_map
          /\ DepthEq(OffsetOf(g), Depth(2, 3))
          /\ extracted_sprites[g].z = z_index_map[g]

-----------------------------------------------------------------------------
(* Bounds of the game specifications *)

\* Largest number of timesteps one run of an Update system covers.
MaxDelta == 2

\* Largest duration, in timesteps, of a supervisor timer.
MaxDuration == 4

\* The multiplier (in tenths) up to which SpecScore lets it decay or grow.
MaxMultiplier == 12

\* The package_count up to which a conveyor is offered further landings.
MaxPackageCount == 2

\* The value that stands for usize::MAX, the result of 0 - 1 in a build
\* without overflow checks.
UsizeMax == 7

\* Most packages one wave gives one conveyor.
MaxWave == 2

-----------------------------------------------------------------------------
(* bevy::time::Timer in TimerMode::Once, as the game uses it.  Time is      *)
(* counted in whole steps of the fixed timestep.                            *)

\* Timer::from_seconds(d, TimerMode::Once)
Timer(d) == [elapsed |-> 0, duration |-> d, paused |-> FALSE,
             finished |-> FALSE, times_finished_this_tick |-> 0]

finished(t) == t.finished
just_finished(t) == t.times_finished_this_tick > 0
paused(t) == t.paused

\* Timer::tick: a paused timer and a finished Once timer do not advance and
\* lose just_finished; otherwise elapsed advances and is clamped to duration.
tick(t, delta) ==
    IF t.paused \/ t.finished
    THEN [t EXCEPT !.times_finished_this_tick = 0]
    ELSE IF t.elapsed + delta >= t.duration
         THEN [t EXCEPT !.elapsed = t.duration, !.finished = TRUE,
                        !.times_finished_this_tick = 1]
         ELSE [t EXCEPT !.elapsed = t.elapsed + delta,
                        !.times_finished_this_tick = 0]

\* Timer::reset keeps the paused flag.
reset(t) == [t EXCEPT !.elapsed = 0, !.finished = FALSE,
                      !.times_finished_this_tick = 0]
pause(t) == [t EXCEPT !.paused = TRUE]
unpause(t) == [t EXCEPT !.paused = FALSE]
set_duration(t, d) == [t EXCEPT !.duration = d]

\* enum PlayerIndex, in the order of GameState's arrays.
PlayerIndex == << "Player1", "Player2" >>
Players == { PlayerIndex[i] : i \in DOMAIN PlayerIndex }

-----------------------------------------------------------------------------
(* user input: main.rs, gamepad_connected and update_controller_mappings   *)
(* (the same code as user_input.rs)                                         *)

\* The fields of ControlMapping / ControlState.
KeyActions == { "move_up", "move_down", "move_left", "move_right", "sprint",
                "pickup_or_throw" }

\* GameState.player_controls[..].mapping as main() builds it.
ControlMapping(p) ==
    [ move_up |-> [keyboard_key |-> IF p = "Player1" THEN "W" ELSE "Up",
                   gamepad_button |-> "DPadUp", gamepad_axis |-> "LeftStickY"],
      move_down |-> [keyboard_key |-> IF p = "Player1" THEN "S" ELSE "Down",
                     gamepad_button |-> "DPadDown", gamepad_axis |-> "LeftStickY"],
      move_left |-> [keyboard_key |-> IF p = "Player1" THEN "A" ELSE "Left",
                     gamepad_button |-> "DPadLeft", gamepad_axis |-> "LeftStickX"],
      move_right |-> [keyboard_key |-> IF p = "Player1" THEN "D" ELSE "Right",
                      gamepad_button |-> "DPadRight", gamepad_axis |-> "LeftStickX"],
      sprint |-> [keyboard_key |-> IF p = "Player1" THEN "ShiftLeft" ELSE "ShiftRight",
                  gamepad_button |-> "LeftTrigger", gamepad_axis |-> "LeftZ"],
      pickup_or_throw |-> [keyboard_key |-> IF p = "Player1" THEN "Space"
                                                             ELSE "ControlRight",
                           gamepad_button |-> "RightTrigger",
                           gamepad_axis |-> "RightZ"] ]

\* Axis values are in tenths: GAMEPAD_AXIS_THRESHOLD = 0.5.
GAMEPAD_AXIS_THRESHOLD == 5

\* The comparison each action applies to its axis value.
axis_pressed(a, v) ==
    IF a \in {"move_down", "move_left"} THEN v < -GAMEPAD_AXIS_THRESHOLD
    ELSE v > GAMEPAD_AXIS_THRESHOLD

\* A player without a gamepad (PlayerControls.pad = None).
NoPad == "None"

\* gamepad_axes.get(GamepadAxis { gamepad, axis_type }).map_or(false, ...)
axis_get(dev, pad, axis, a) ==
    IF << pad, axis >> \in DOMAIN dev.axes
    THEN axis_pressed(a, dev.axes[<< pad, axis >>]) ELSE FALSE

\* new_control_state.<a>.pressed after the |= of axis, button and key.
button_pressed(control, a, dev) ==
    LET m == ControlMapping(control.player_index)[a]
    IN \/ /\ control.pad # NoPad
          /\ \/ axis_get(dev, control.pad, m.gamepad_axis, a)
             \/ << control.pad, m.gamepad_button >> \in dev.buttons
       \/ m.keyboard_key \in dev.keys

new_button_state_FromFresh(prev, is_pressed) ==
    [pressed |-> is_pressed, state_changed_this_frame |-> is_pressed # FALSE]

\* pressed and state_changed_this_frame = (new pressed != prev pressed).
new_button_state(prev, is_pressed) ==
    [pressed |-> is_pressed,
     state_changed_this_frame |-> is_pressed # prev.pressed]

\* impl ButtonState
just_pressed(b) == b.pressed /\ b.state_changed_this_frame
just_released(b) == ~b.pressed /\ b.state_changed_this_frame

\* GameState.player_controls as main() inserts it.
InitialControls ==
    [ p \in Players |->
        [player_index |-> p, pad |-> NoPad,
         state |-> [ a \in KeyActions |->
                       [pressed |-> FALSE, state_changed_this_frame |-> FALSE] ]] ]

NoInput == [connected |-> {}, keys |-> {}, buttons |-> {}, axes |-> << >>]

\* The first system of the chained FixedUpdate systems.
FirstSystem == "gamepad_connected"

\* The engine's input systems: the device resources take new values between
\* two runs of the chain; the gamepads stay as they are connected.
input_system(dev) ==
    /\ gpc = FirstSystem /\ ~panicked
    /\ dev.connected = input_devices.connected
    /\ input_devices' = dev
    /\ UNCHANGED << player_controls, supervisor, score_config, player_scores,
                    package_wave_timer, conveyors, packages, players,
                    collision_events, commands, gpc, panicked, wave_spawned >>
    /\ UNCHANGED sprite_vars

\* .iter_mut().find(|player_control| player_control.pad.is_none())
first_without_pad(controls) ==
    IF controls[PlayerIndex[1]].pad = NoPad THEN {PlayerIndex[1]}
    ELSE IF controls[PlayerIndex[2]].pad = NoPad THEN {PlayerIndex[2]}
    ELSE {}

\* .iter_mut().find(|player_control| player_control.pad ... p.id == gamepad.id)
first_with_pad(controls, g) ==
    IF controls[PlayerIndex[1]].pad = g THEN {PlayerIndex[1]}
    ELSE IF controls[PlayerIndex[2]].pad = g THEN {PlayerIndex[2]}
    ELSE {}

\* gamepad_connected, reading at most one connection event: ev is
\* << "None", g >>, << "Connected", g >> or << "Disconnected", g >>.
gamepad_connected(ev) ==
    /\ gpc = "gamepad_connected" /\ ~panicked
    /\ IF ev[1] = "None"
       THEN UNCHANGED << player_controls, input_devices >>
       ELSE IF ev[1] = "Connected"
       THEN /\ ev[2] \notin input_devices.connected
            /\ input_devices' = [input_devices EXCEPT !.connected = @ \cup {ev[2]}]
            /\ player_controls' =
                  [ p \in Players |->
                      IF p \in first_without_pad(player_controls)
                      THEN [player_controls[p] EXCEPT !.pad = ev[2]]
                      ELSE player_controls[p] ]
       ELSE /\ ev[2] \in input_devices.connected
            /\ input_devices' = [input_devices EXCEPT !.connected = @ \ {ev[2]}]
            /\ player_controls' =
                  [ p \in Players |->
                      IF p \in first_with_pad(player_controls, ev[2])
                      THEN [player_controls[p] EXCEPT !.pad = NoPad]
                      ELSE player_controls[p] ]
    /\ gpc' = "update_controller_mappings"
    /\ UNCHANGED << supervisor, score_config, player_scores, package_wave_timer,
                    conveyors, packages, players, collision_events, commands,
                    panicked, wave_spawned >>
    /\ UNCHANGED sprite_vars

update_controller_mappings ==
    /\ gpc = "update_controller_mappings" /\ ~panicked
    /\ player_controls' =
          [ p \in Players |->
              [player_controls[p] EXCEPT !.state =
                  [ a \in KeyActions |->
                      new_button_state(player_controls[p].state[a],
                          button_pressed(player_controls[p], a, input_devices)) ]] ]
    /\ gpc' = "spawn_package_wave"
    /\ UNCHANGED << input_devices, supervisor, score_config, player_scores,
                    package_wave_timer, conveyors, packages, players,
                    collision_events, commands, panicked, wave_spawned >>
    /\ UNCHANGED sprite_vars

-----------------------------------------------------------------------------
(* supervisor: main.rs, spawn_supervisor and update_supervisor (the same    *)
(* code as supervisor.rs)                                                   *)

\* spawn_supervisor: monitoring_timer runs, distracted_timer is paused.
spawn_supervisor(monitoring_duration, distracted_duration) ==
    [monitoring_timer |-> Timer(monitoring_duration),
     distracted_timer |-> pause(Timer(distracted_duration)),
     facing_direction |-> "Down"]

\* let monitoring = !supervisor.monitoring_timer.finished();
monitoring(s) == ~finished(s.monitoring_timer)

supervisor_step_NoReset(s, delta) ==
    LET t1 == [s EXCEPT !.monitoring_timer = tick(@, delta),
                        !.distracted_timer = tick(@, delta)]
        t2 == IF just_finished(t1.monitoring_timer)
              THEN [t1 EXCEPT !.monitoring_timer = pause(@),
                              !.distracted_timer = unpause(reset(@))]
              ELSE t1
        t3 == IF just_finished(t2.distracted_timer)
              THEN [t2 EXCEPT !.distracted_timer = pause(@),
                              !.monitoring_timer = unpause(@)]
              ELSE t2
    IN [t3 EXCEPT !.facing_direction = IF monitoring(t3) THEN "Down" ELSE "Up"]

\* The body of update_supervisor's loop for the one supervisor entity.
supervisor_step(s, delta) ==
    LET t1 == [s EXCEPT !.monitoring_timer = tick(@, delta),
                        !.distracted_timer = tick(@, delta)]
        t2 == IF just_finished(t1.monitoring_timer)
              THEN [t1 EXCEPT !.monitoring_timer = pause(@),
                              !.distracted_timer = unpause(reset(@))]
              ELSE t1
        t3 == IF just_finished(t2.distracted_timer)
              THEN [t2 EXCEPT !.distracted_timer = pause(@),
                              !.monitoring_timer = unpause(reset(@))]
              ELSE t2
    IN [t3 EXCEPT !.facing_direction = IF monitoring(t3) THEN "Down" ELSE "Up"]

update_supervisor(delta) ==
    /\ supervisor' = supervisor_step(supervisor, delta)
    /\ UNCHANGED << input_devices, player_controls, score_config, player_scores,
                    package_wave_timer, conveyors, packages, players,
                    collision_events, commands, gpc, panicked, wave_spawned >>
    /\ UNCHANGED sprite_vars

-----------------------------------------------------------------------------
(* scores: main.rs update_score_multipiers and the score part of            *)
(* check_for_delivered_packages (the same code as game_mode.rs and          *)
(* conveyor.rs, where the three values come from GameConfig).  The          *)
(* multiplier is counted in tenths, the score in tenths of a point.         *)

\* multiplier: 1.
UnitMultiplier == 10

\* PlayerScoreData as main() inserts it.
InitialScoreData(freeze_duration) ==
    [score |-> 0, multiplier |-> UnitMultiplier,
     multiplier_decrement_freeze_timer |-> Timer(freeze_duration)]

\* f32::clamp(1., f32::INFINITY)
clamp_to_one(m) == IF m < UnitMultiplier THEN UnitMultiplier ELSE m

decay_multiplier_WhileFrozen(data, config, delta) ==
    LET t == tick(data.multiplier_decrement_freeze_timer, delta)
    IN [data EXCEPT
          !.multiplier_decrement_freeze_timer = t,
          !.multiplier =
              clamp_to_one(@ - config.multiplier_decrease_per_second * delta)]

\* The body of update_score_multipiers's loop.
decay_multiplier(data, config, delta) ==
    LET t == tick(data.multiplier_decrement_freeze_timer, delta)
    IN [data EXCEPT
          !.multiplier_decrement_freeze_timer = t,
          !.multiplier =
              IF finished(t)
              THEN clamp_to_one(@ - config.multiplier_decrease_per_second * delta)
              ELSE @]

\* check_for_delivered_packages, the Outgoing(player_index) arm.
score_delivery(data, config) ==
    [data EXCEPT
       !.score = @ + config.base_score_value * data.multiplier,
       !.multiplier = @ + config.multiplier_increase_per_package,
       !.multiplier_decrement_freeze_timer = reset(@)]

update_score_multipiers(delta) ==
    /\ gpc = FirstSystem /\ ~panicked
    /\ player_scores' =
          [ p \in Players |-> decay_multiplier(player_scores[p], score_config, delta) ]
    /\ UNCHANGED << input_devices, player_controls, supervisor, score_config,
                    package_wave_timer, conveyors, packages, players,
                    collision_events, commands, gpc, panicked, wave_spawned >>
    /\ UNCHANGED sprite_vars

-----------------------------------------------------------------------------
(* conveyors, packages and players: main.rs, the FixedUpdate chain.          *)
(* Entities are named by strings; positions and velocities are left out,    *)
(* so which colliders overlap and which packages have passed the end of a   *)
(* belt are inputs of the systems that read them.  A timer second is one    *)
(* FixedUpdate run.                                                          *)

NoEntity == "None"

IncomingConveyors == { "In1" }

OutgoingConveyors == { "Out1", "Out2" }

\* ConveyorLabelTag of a conveyor entity, as setup() spawns them.
ConveyorLabel(c) ==
    CASE c = "Out1" -> [kind |-> "Outgoing", player_index |-> "Player1"]
      [] c = "Out2" -> [kind |-> "Outgoing", player_index |-> "Player2"]
      [] OTHER      -> [kind |-> "Incoming", player_index |-> NoEntity]

is_incoming(c) == ConveyorLabel(c).kind = "Incoming"

\* package_query's iteration order.
PackageOrder == << "Pkg1", "Pkg2" >>

PackageIds == { PackageOrder[i] : i \in DOMAIN PackageOrder }

\* A package slot no entity lives in.
NoPackage == [spawned |-> FALSE, parent |-> NoEntity, layers |-> {}, untouched |-> FALSE]

\* spawn_package's PackageBundle, as a child of its conveyor.  untouched
\* records that no player has had the package since the wave put it there.
spawn_package(conveyor) ==
    [spawned |-> TRUE, parent |-> conveyor, layers |-> { "Object" }, untouched |-> TRUE]

\* spawn_conveyor: the active timer is created paused, the idle timer runs.
spawn_conveyor(active_duration, idle_duration) ==
    [active_timer |-> pause(Timer(active_duration)),
     idle_timer |-> Timer(idle_duration),
     package_count |-> 0]

\* spawn_player's Player component.
spawn_player(cooldown) == [pickup_cooldown_timer |-> Timer(cooldown)]

Conveyors == DOMAIN conveyors

\* The package children of an entity, in package_query's order.
package_children(e) ==
    SelectSeq(PackageOrder, LAMBDA k : packages[k].spawned /\ packages[k].parent = e)

\* usize subtraction of one: at zero a build with overflow checks panics and
\* a build without them wraps to usize::MAX, which UsizeMax stands for.
decrement(count, overflow_checks) ==
    IF count = 0
    THEN [value |-> IF overflow_checks THEN 0 ELSE UsizeMax, panic |-> overflow_checks]
    ELSE [value |-> count - 1, panic |-> FALSE]

\* usize addition of one (no count reaches UsizeMax by additions).
increment(count) == count + 1

Command(op, parent, child) == [op |-> op, parent |-> parent, child |-> child]

\* The entity slots spawn_package_wave can use: those no live entity
\* occupies (no command is queued when the first systems of the chain run).
free_slots ==
    SelectSeq(PackageOrder, LAMBDA k : ~packages[k].spawned)

RECURSIVE SumOver(_, _)
SumOver(f, S) ==
    IF S = {} THEN 0
    ELSE LET x == CHOOSE y \in S : TRUE IN f[x] + SumOver(f, S \ {x})

RECURSIVE SetToSeq(_)
SetToSeq(S) ==
    IF S = {} THEN << >>
    ELSE LET x == CHOOSE y \in S : TRUE IN << x >> \o SetToSeq(S \ {x})

\* The wave's spawn commands: counts[c] packages for conveyor c, taking the
\* free slots in order.
RECURSIVE wave_commands(_, _, _)
wave_commands(cs, counts, slots) ==
    IF cs = << >> THEN << >>
    ELSE LET c == Head(cs)
             n == counts[c]
         IN [ i \in 1..n |-> Command("spawn_child", c, slots[i]) ]
              \o wave_commands(Tail(cs), counts, SubSeq(slots, n + 1, Len(slots)))

spawn_package_wave(delta, counts) ==
    /\ gpc = "spawn_package_wave" /\ ~panicked
    /\ LET t == tick(package_wave_timer, delta)
       IN IF ~finished(t)
          THEN /\ \A c \in DOMAIN counts : counts[c] = 0
               /\ package_wave_timer' = t
               /\ UNCHANGED << conveyors, commands, wave_spawned >>
          ELSE /\ SumOver(counts, DOMAIN counts) <= Len(free_slots)
               /\ package_wave_timer' = pause(reset(t))
               /\ conveyors' =
                     [ c \in Conveyors |->
                         IF is_incoming(c)
                         THEN [conveyors[c] EXCEPT
                                 !.package_count = @ + counts[c],
                                 !.idle_timer = pause(@),
                                 !.active_timer = unpause(reset(@))]
                         ELSE conveyors[c] ]
               /\ commands' = commands
                     \o wave_commands(SetToSeq(DOMAIN counts), counts, free_slots)
               /\ wave_spawned' = TRUE
    /\ gpc' = "update_conveyors"
    /\ UNCHANGED << input_devices, player_controls, supervisor, score_config,
                    player_scores, packages, players, collision_events, panicked >>
    /\ UNCHANGED sprite_vars

\* update_conveyors, the timer part of the loop body for one conveyor.
conveyor_timers(c, delta) ==
    LET t1 == [conveyors[c] EXCEPT !.active_timer = tick(@, delta),
                                   !.idle_timer = tick(@, delta)]
        t2 == IF just_finished(t1.active_timer)
              THEN [t1 EXCEPT !.active_timer = pause(@),
                              !.idle_timer =
                                  IF is_incoming(c) THEN @ ELSE unpause(reset(@))]
              ELSE t1
        t3 == IF just_finished(t2.idle_timer)
              THEN [t2 EXCEPT !.idle_timer = pause(@),
                              !.active_timer = unpause(reset(@))]
              ELSE t2
    IN t3

conveyor_active(conv) == ~finished(conv.active_timer)

\* update_conveyors, the blinker loop for one conveyor (every conveyor has
\* one Blinker child): a stopped Incoming conveyor that still counts
\* packages keeps its idle timer paused.
conveyor_gate(c, conv) ==
    IF ~conveyor_active(conv) /\ is_incoming(c) /\ conv.package_count # 0
    THEN [conv EXCEPT !.idle_timer = pause(@)]
    ELSE conv

\* incoming_conveyors_empty after the loop over all conveyors.
incoming_conveyors_empty(after) ==
    \A c \in DOMAIN after :
        is_incoming(c) =>
            /\ ~conveyor_active(after[c])
            /\ after[c].package_count = 0

update_conveyors(delta) ==
    /\ gpc = "update_conveyors" /\ ~panicked
    /\ LET after == [ c \in Conveyors |-> conveyor_gate(c, conveyor_timers(c, delta)) ]
       IN IF incoming_conveyors_empty(after) /\ paused(package_wave_timer)
          THEN /\ package_wave_timer' = unpause(package_wave_timer)
               /\ conveyors' =
                     [ c \in Conveyors |->
                         IF is_incoming(c)
                         THEN [after[c] EXCEPT !.idle_timer =
                                 unpause(set_duration(reset(@),
                                                      package_wave_timer.duration))]
                         ELSE after[c] ]
          ELSE /\ package_wave_timer' = package_wave_timer
               /\ conveyors' = after
    /\ gpc' = "player_charge_throw"
    /\ UNCHANGED << input_devices, player_controls, supervisor, score_config,
                    player_scores, packages, players, collision_events,
                    commands, panicked, wave_spawned >>
    /\ UNCHANGED sprite_vars

\* player_charge_throw: every player's pickup cooldown advances.
player_charge_throw(delta) ==
    /\ gpc = "player_charge_throw" /\ ~panicked
    /\ players' = [ p \in Players |->
                      [players[p] EXCEPT !.pickup_cooldown_timer = tick(@, delta)] ]
    /\ gpc' = "throw_package"
    /\ UNCHANGED << input_devices, player_controls, supervisor, score_config,
                    player_scores, package_wave_timer, conveyors, packages,
                    collision_events, commands, panicked, wave_spawned >>
    /\ UNCHANGED sprite_vars

wants_to_pickup(p) == just_pressed(player_controls[p].state.pickup_or_throw)

\* throw_package's conditions for one package.
is_thrown(k) ==
    /\ packages[k].spawned
    /\ packages[k].parent \in Players
    /\ just_released(player_controls[packages[k].parent].state.pickup_or_throw)
    /\ finished(players[packages[k].parent].pickup_cooldown_timer)

throw_package ==
    /\ gpc = "throw_package" /\ ~panicked
    /\ LET thrown == SelectSeq(PackageOrder, is_thrown)
       IN /\ commands' = commands
                \o [ i \in 1..Len(thrown) |-> Command("remove_parent", NoEntity, thrown[i]) ]
          /\ packages' = [ k \in PackageIds |->
                             IF is_thrown(k)
                             THEN [packages[k] EXCEPT !.layers = @ \ { "HeldObject" }]
                             ELSE packages[k] ]
    /\ gpc' = "check_for_collisions"
    /\ UNCHANGED << input_devices, player_controls, supervisor, score_config,
                    player_scores, package_wave_timer, conveyors, players,
                    collision_events, panicked, wave_spawned >>
    /\ UNCHANGED sprite_vars

\* The overlaps the systems after check_for_collisions can react to: a
\* player who has just pressed pickup_or_throw with an Incoming conveyor or
\* a package, and a package without a parent with a conveyor (one whose
\* package_count is below MaxPackageCount, which keeps the counts finite).
possible_overlaps ==
    { { p, c } : p \in { q \in Players : wants_to_pickup(q) },
                 c \in { d \in Conveyors : is_incoming(d) } }
    \cup { { p, k } : p \in { q \in Players : wants_to_pickup(q) },
                      k \in { j \in PackageIds : packages[j].spawned } }
    \cup { { k, c } : k \in { j \in PackageIds :
                                 packages[j].spawned /\ packages[j].parent = NoEntity },
                      c \in { d \in Conveyors :
                                  conveyors[d].package_count \in 0..(MaxPackageCount - 1) } }

\* collider_query's iteration order.
ColliderOrder == << "Player1", "Player2", "In1", "Out1", "Out2", "Pkg1", "Pkg2" >>

RECURSIVE collision_pairs(_, _, _)
collision_pairs(i, j, overlaps) ==
    IF i > Len(ColliderOrder) THEN << >>
    ELSE IF j > Len(ColliderOrder) THEN collision_pairs(i + 1, 1, overlaps)
    ELSE (IF i # j /\ { ColliderOrder[i], ColliderOrder[j] } \in overlaps
          THEN << << ColliderOrder[i], ColliderOrder[j] >> >>
          ELSE << >>)
         \o collision_pairs(i, j + 1, overlaps)

\* check_for_collisions: the nested loop sends (a, b) and (b, a) for every
\* overlapping pair.
check_for_collisions(overlaps) ==
    /\ gpc = "check_for_collisions" /\ ~panicked
    /\ overlaps \subseteq possible_overlaps
    /\ collision_events' = collision_pairs(1, 1, overlaps)
    /\ gpc' = "pickup_package"
    /\ UNCHANGED << input_devices, player_controls, supervisor, score_config,
                    player_scores, package_wave_timer, conveyors, packages,
                    players, commands, panicked, wave_spawned >>
    /\ UNCHANGED sprite_vars

\* The first entity of a set that an event names, NoEntity for none.
event_entity(ev, S) ==
    IF ev[1] \in S THEN ev[1] ELSE IF ev[2] \in S THEN ev[2] ELSE NoEntity

spawned_packages == { k \in PackageIds : packages[k].spawned }

\* pickup_package, the loop body for one collision event.  acc carries what
\* the loop has changed so far; parents are read from the world, since the
\* add_child commands are deferred.
pickup_event_NoFrameSet(acc, ev, overflow_checks) ==
    LET p == event_entity(ev, Players)
        package_collision == event_entity(ev, spawned_packages)
        conveyor_collision == event_entity(ev, { c \in Conveyors : is_incoming(c) })
    IN IF acc.panicked \/ p = NoEntity THEN acc
       ELSE IF ~wants_to_pickup(p) THEN acc
       ELSE IF package_children(p) # << >>
       THEN acc
       ELSE IF package_collision = NoEntity /\ conveyor_collision = NoEntity THEN acc
       ELSE IF conveyor_collision # NoEntity /\ package_children(conveyor_collision) = << >>
       THEN [acc EXCEPT !.panicked = TRUE]
       ELSE
         LET k == IF conveyor_collision # NoEntity
                  THEN Head(package_children(conveyor_collision))
                  ELSE package_collision
             parent == packages[k].parent
             from_incoming == parent \in Conveyors /\ is_incoming(parent)
             dec == decrement(acc.conveyors[parent].package_count, overflow_checks)
         IN IF parent = NoEntity \/ from_incoming
            THEN IF parent # NoEntity /\ dec.panic
                 THEN [acc EXCEPT !.panicked = TRUE]
                 ELSE [acc EXCEPT
                         !.conveyors =
                             IF parent = NoEntity THEN @
                             ELSE [@ EXCEPT ![parent].package_count = dec.value],
                         !.packages[k].layers = @ \cup { "HeldObject" },
                         !.commands = Append(@, Command("add_child", p, k)),
                         !.picked = @ \cup { p },
                         !.players[p].pickup_cooldown_timer = reset(@)]
            ELSE acc

pickup_event(acc, ev, overflow_checks) ==
    LET p == event_entity(ev, Players)
        package_collision == event_entity(ev, spawned_packages)
        conveyor_collision == event_entity(ev, { c \in Conveyors : is_incoming(c) })
    IN IF acc.panicked \/ p = NoEntity THEN acc
       ELSE IF ~wants_to_pickup(p) THEN acc
       ELSE IF package_children(p) # << >> \/ p \in acc.picked
       THEN acc
       ELSE IF package_collision = NoEntity /\ conveyor_collision = NoEntity THEN acc
       ELSE IF conveyor_collision # NoEntity /\ package_children(conveyor_collision) = << >>
       THEN [acc EXCEPT !.panicked = TRUE]
       ELSE
         LET k == IF conveyor_collision # NoEntity
                  THEN Head(package_children(conveyor_collision))
                  ELSE package_collision
             parent == packages[k].parent
             from_incoming == parent \in Conveyors /\ is_incoming(parent)
             dec == decrement(acc.conveyors[parent].package_count, overflow_checks)
         IN IF parent = NoEntity \/ from_incoming
            THEN IF parent # NoEntity /\ dec.panic
                 THEN [acc EXCEPT !.panicked = TRUE]
                 ELSE [acc EXCEPT
                         !.conveyors =
                             IF parent = NoEntity THEN @
                             ELSE [@ EXCEPT ![parent].package_count = dec.value],
                         !.packages[k].layers = @ \cup { "HeldObject" },
                         !.commands = Append(@, Command("add_child", p, k)),
                         !.picked = @ \cup { p },
                         !.players[p].pickup_cooldown_timer = reset(@)]
            ELSE acc

RECURSIVE pickup_loop(_, _, _)
pickup_loop(acc, events, overflow_checks) ==
    IF events = << >> THEN acc
    ELSE pickup_loop(pickup_event(acc, Head(events), overflow_checks),
                     Tail(events), overflow_checks)

pickup_package(overflow_checks) ==
    /\ gpc = "pickup_package" /\ ~panicked
    /\ LET acc == pickup_loop([conveyors |-> conveyors, packages |-> packages,
                               players |-> players, commands |-> commands,
                               picked |-> {}, panicked |-> FALSE],
                              collision_events, overflow_checks)
       IN IF acc.panicked
          THEN /\ panicked' = TRUE
               /\ UNCHANGED << conveyors, packages, players, commands, gpc >>
          ELSE /\ conveyors' = acc.conveyors
               /\ packages' = acc.packages
               /\ players' = acc.players
               /\ commands' = acc.commands
               /\ gpc' = "collect_packages_on_outgoing_conveyors"
               /\ UNCHANGED panicked
    /\ UNCHANGED << input_devices, player_controls, supervisor, score_config,
                    player_scores, package_wave_timer, collision_events,
                    wave_spawned >>
    /\ UNCHANGED sprite_vars

\* collect_packages_on_outgoing_conveyors, the loop body for one event: a
\* package without a parent is queued as a child of the conveyor it touches
\* and counted at once.
collect_event(acc, ev) ==
    LET k == event_entity(ev, spawned_packages)
        c == event_entity(ev, Conveyors)
    IN IF k = NoEntity \/ c = NoEntity THEN acc
       ELSE IF packages[k].parent # NoEntity THEN acc
       ELSE [acc EXCEPT
               !.commands = Append(@, Command("add_child", c, k)),
               !.conveyors[c].package_count = increment(@)]

RECURSIVE collect_loop(_, _)
collect_loop(acc, events) ==
    IF events = << >> THEN acc
    ELSE collect_loop(collect_event(acc, Head(events)), Tail(events))

collect_packages_on_outgoing_conveyors ==
    /\ gpc = "collect_packages_on_outgoing_conveyors" /\ ~panicked
    /\ LET acc == collect_loop([conveyors |-> conveyors, commands |-> commands],
                               collision_events)
       IN /\ conveyors' = acc.conveyors
          /\ commands' = acc.commands
    /\ gpc' = "check_for_delivered_packages"
    /\ UNCHANGED << input_devices, player_controls, supervisor, score_config,
                    player_scores, package_wave_timer, packages, players,
                    collision_events, panicked, wave_spawned >>
    /\ UNCHANGED sprite_vars

\* The packages check_for_delivered_packages can find past the end of their
\* belt: children of an Outgoing conveyor that moved them in this run.
deliverable ==
    { k \in spawned_packages :
        /\ packages[k].parent \in Conveyors
        /\ ~is_incoming(packages[k].parent)
        /\ conveyor_active(conveyors[packages[k].parent]) }

\* check_for_delivered_packages, the loop body for one delivered package.
deliver_one(acc, k, overflow_checks) ==
    LET c == packages[k].parent
        dec == decrement(acc.conveyors[c].package_count, overflow_checks)
        owner == ConveyorLabel(c).player_index
    IN IF acc.panicked \/ dec.panic THEN [acc EXCEPT !.panicked = TRUE]
       ELSE [acc EXCEPT
               !.conveyors[c].package_count = dec.value,
               !.commands = @ \o << Command("remove_children", c, k),
                                    Command("despawn", NoEntity, k) >>,
               !.player_scores[owner] = score_delivery(@, score_config)]

RECURSIVE deliver_loop(_, _, _)
deliver_loop(acc, ks, overflow_checks) ==
    IF ks = << >> THEN acc
    ELSE deliver_loop(deliver_one(acc, Head(ks), overflow_checks),
                      Tail(ks), overflow_checks)

check_for_delivered_packages(delivered, overflow_checks) ==
    /\ gpc = "check_for_delivered_packages" /\ ~panicked
    /\ delivered \subseteq deliverable
    /\ LET acc == deliver_loop([conveyors |-> conveyors, commands |-> commands,
                                player_scores |-> player_scores, panicked |-> FALSE],
                               SelectSeq(PackageOrder, LAMBDA k : k \in delivered),
                               overflow_checks)
       IN IF acc.panicked
          THEN /\ panicked' = TRUE
               /\ UNCHANGED << conveyors, commands, player_scores, gpc >>
          ELSE /\ conveyors' = acc.conveyors
               /\ commands' = acc.commands
               /\ player_scores' = acc.player_scores
               /\ gpc' = "apply_deferred"
               /\ UNCHANGED panicked
    /\ UNCHANGED << input_devices, player_controls, supervisor, score_config,
                    package_wave_timer, packages, players, collision_events,
                    wave_spawned >>
    /\ UNCHANGED sprite_vars

\* One queued command applied to the package table.
apply_command(pk, cmd) ==
    CASE cmd.op = "spawn_child" ->
           [pk EXCEPT ![cmd.child] = spawn_package(cmd.parent)]
      [] cmd.op = "add_child" ->
           [pk EXCEPT ![cmd.child].parent = cmd.parent,
                      ![cmd.child].untouched = FALSE]
      [] cmd.op = "remove_parent" ->
           [pk EXCEPT ![cmd.child].parent = NoEntity,
                      ![cmd.child].untouched = FALSE]
      [] cmd.op = "remove_children" ->
           IF pk[cmd.child].parent = cmd.parent
           THEN [pk EXCEPT ![cmd.child].parent = NoEntity]
           ELSE pk
      [] OTHER -> [pk EXCEPT ![cmd.child] = NoPackage]

RECURSIVE apply_commands(_, _)
apply_commands(pk, cmds) ==
    IF cmds = << >> THEN pk
    ELSE apply_commands(apply_command(pk, Head(cmds)), Tail(cmds))

\* The end of the FixedUpdate run: the queued commands are applied in the
\* order of the systems that queued them; Last clears the collision events.
apply_deferred ==
    /\ gpc = "apply_deferred" /\ ~panicked
    /\ packages' = apply_commands(packages, commands)
    /\ commands' = << >>
    /\ collision_events' = << >>
    /\ gpc' = FirstSystem
    /\ UNCHANGED << input_devices, player_controls, supervisor, score_config,
                    player_scores, package_wave_timer, conveyors, players,
                    panicked, wave_spawned >>
    /\ UNCHANGED sprite_vars

-----------------------------------------------------------------------------
(* Specifications of the game's systems.  The sprites of the game are       *)
(* covered by Spec and SpecFrames; here the scene has no tagged entity.     *)

NoScene ==
    /\ layer = << >>
    /\ pos_y = << >>
    /\ pos_z = << >>
    /\ has_sprite = << >>
    /\ y_sort = SpriteLayerOptions_default
    /\ extracted_sprites = << >>
    /\ warnings = << >>
    /\ all_entities = << >>
    /\ z_index_map = << >>
    /\ pc = "host"
    /\ last_mode = "none"

\* The fixed timestep of FixedUpdate, the unit of time.
Timestep == 1

\* Timer durations in timesteps, keeping the order of the game's values:
\* idle 3 s < Incoming belt 4.2 s < wave 5 s < Outgoing belt 5.7 s.
IDLE_TIME == 1
INCOMING_ACTIVE_TIME == 2
PACKAGE_WAVE_TIME == 3
OUTGOING_ACTIVE_TIME == 4

\* pickup_cooldown_timer: 0.3 s
PICKUP_COOLDOWN_TIME == 2

\* multiplier_decrement_freeze_timer: 2 s
FREEZE_TIME == 2

\* main.rs's constants: BASE_PACKAGE_SCORE 5, MULTIPLIER_INCREASE_PER_PACKAGE
\* 0.1 and MULTIPLIER_DECREASE_PER_SECOND 0.1 (in tenths).
DefaultScoreConfig ==
    [base_score_value |-> 5, multiplier_increase_per_package |-> 1,
     multiplier_decrease_per_second |-> 1]

\* A configuration under which deliveries leave the scores as they are.
FlatScoreConfig ==
    [base_score_value |-> 0, multiplier_increase_per_package |-> 0,
     multiplier_decrease_per_second |-> 0]

\* GameConfig's score values are read from a file: any sign can occur.
ScoreConfigs ==
    [base_score_value : {-5, 0, 5},
     multiplier_increase_per_package : {-1, 0, 1},
     multiplier_decrease_per_second : {-1, 0, 1, 3}]

\* The systems between two positions of the chain that write none of the
\* variables a specification looks at.
skip_systems(from, to) ==
    /\ gpc = from /\ ~panicked
    /\ gpc' = to
    /\ UNCHANGED << input_devices, player_controls, supervisor, score_config,
                    player_scores, package_wave_timer, conveyors, packages,
                    players, collision_events, commands, panicked, wave_spawned >>
    /\ UNCHANGED sprite_vars

\* The world after main() and setup(), with the given conveyors.
GameStart(cs, config) ==
    /\ input_devices = NoInput
    /\ player_controls = InitialControls
    /\ supervisor = spawn_supervisor(MaxDuration, MaxDuration)
    /\ score_config = config
    /\ player_scores = [ p \in Players |-> InitialScoreData(FREEZE_TIME) ]
    /\ package_wave_timer = Timer(PACKAGE_WAVE_TIME)
    /\ conveyors = [ c \in cs |->
                       spawn_conveyor(IF is_incoming(c) THEN INCOMING_ACTIVE_TIME
                                      ELSE OUTGOING_ACTIVE_TIME, IDLE_TIME) ]
    /\ packages = [ k \in PackageIds |-> NoPackage ]
    /\ players = [ p \in Players |-> spawn_player(PICKUP_COOLDOWN_TIME) ]
    /\ collision_events = << >>
    /\ commands = << >>
    /\ gpc = FirstSystem
    /\ panicked = FALSE
    /\ wave_spawned = FALSE

(* SpecInput: keyboard and gamepads.  Two gamepads can connect and          *)
(* disconnect; the devices offer the keys, buttons and the stick axis of    *)
(* move_up and move_down.                                                   *)

Gamepads == { "G1", "G2" }

InputStates ==
    { [connected |-> c, keys |-> k, buttons |-> b, axes |-> a] :
        c \in SUBSET Gamepads,
        k \in SUBSET { "W", "Up" },
        b \in SUBSET { << "G1", "DPadUp" >>, << "G2", "DPadUp" >> },
        a \in { << >> } \cup
              [ { << "G1", "LeftStickY" >> } -> { -10, 5, 10 } ] }

ConnectionEvents ==
    { << "None", "G1" >> } \cup
    { << kind, g >> : kind \in { "Connected", "Disconnected" }, g \in Gamepads }

InitInput ==
    /\ NoScene
    /\ GameStart({ "In1", "Out1", "Out2" }, DefaultScoreConfig)

NextInput ==
    \/ \E dev \in InputStates : input_system(dev)
    \/ \E ev \in ConnectionEvents : gamepad_connected(ev)
    \/ update_controller_mappings
    \/ skip_systems("spawn_package_wave", FirstSystem)

SpecInput == InitInput /\ [][NextInput]_vars

(* SpecSupervisor: the supervisor's timers, started with any durations.     *)
(* update_supervisor runs in every run of FixedUpdate.                      *)

InitSupervisor ==
    /\ NoScene
    /\ input_devices = NoInput
    /\ player_controls = InitialControls
    /\ supervisor \in { spawn_supervisor(m, d) : m \in 1..MaxDuration,
                                                 d \in 1..MaxDuration }
    /\ score_config = DefaultScoreConfig
    /\ player_scores = [ p \in Players |-> InitialScoreData(FREEZE_TIME) ]
    /\ package_wave_timer = Timer(PACKAGE_WAVE_TIME)
    /\ conveyors = << >>
    /\ packages = [ k \in PackageIds |-> NoPackage ]
    /\ players = [ p \in Players |-> spawn_player(PICKUP_COOLDOWN_TIME) ]
    /\ collision_events = << >>
    /\ commands = << >>
    /\ gpc = FirstSystem
    /\ panicked = FALSE
    /\ wave_spawned = FALSE

NextSupervisor == \E delta \in 1..MaxDelta : update_supervisor(delta)

SpecSupervisor ==
    InitSupervisor /\ [][NextSupervisor]_vars /\ WF_vars(NextSupervisor)

(* SpecScore: deliveries and multiplier decay.  Every package lies on an    *)
(* Outgoing conveyor; only check_for_delivered_packages, the application of *)
(* its commands and update_score_multipiers act.                            *)

InitScore ==
    /\ NoScene
    /\ input_devices = NoInput
    /\ player_controls = InitialControls
    /\ supervisor = spawn_supervisor(MaxDuration, MaxDuration)
    /\ score_config \in ScoreConfigs
    /\ player_scores = [ p \in Players |-> InitialScoreData(FREEZE_TIME) ]
    /\ package_wave_timer = Timer(PACKAGE_WAVE_TIME)
    /\ packages \in [ PackageIds ->
                        { [spawned |-> TRUE, parent |-> c, layers |-> { "Object" },
                           untouched |-> FALSE] : c \in OutgoingConveyors } ]
    /\ conveyors = [ c \in OutgoingConveyors |->
                       [spawn_conveyor(OUTGOING_ACTIVE_TIME, IDLE_TIME) EXCEPT
                          !.package_count =
                              Cardinality({ k \in PackageIds : packages[k].parent = c })] ]
    /\ players = [ p \in Players |-> spawn_player(PICKUP_COOLDOWN_TIME) ]
    /\ collision_events = << >>
    /\ commands = << >>
    /\ gpc = FirstSystem
    /\ panicked = FALSE
    /\ wave_spawned = FALSE

NextScore ==
    \/ skip_systems(FirstSystem, "check_for_delivered_packages")
    \/ \E delivered \in SUBSET PackageIds :
          check_for_delivered_packages(delivered, TRUE)
    \/ apply_deferred
    \/ /\ \A p \in Players : player_scores[p].multiplier <= MaxMultiplier
       /\ \E delta \in 1..MaxDelta : update_score_multipiers(delta)

SpecScore == InitScore /\ [][NextScore]_vars

(* SpecGame: the FixedUpdate chain with two players and one Incoming         *)
(* conveyor; the players only use their pickup_or_throw keys.  Deliveries   *)
(* from Outgoing conveyors are the subject of SpecScore.                    *)

GameInputStates ==
    { [connected |-> {}, keys |-> k, buttons |-> {}, axes |-> << >>] :
        k \in SUBSET { "Space", "ControlRight" } }

WaveCounts ==
    [ IncomingConveyors -> 0..MaxWave ]

InitGame ==
    /\ NoScene
    /\ GameStart({ "In1" }, FlatScoreConfig)

NextGame ==
    \/ \E dev \in GameInputStates : input_system(dev)
    \/ gamepad_connected(<< "None", "G1" >>)
    \/ update_controller_mappings
    \/ \E counts \in WaveCounts : spawn_package_wave(Timestep, counts)
    \/ update_conveyors(Timestep)
    \/ player_charge_throw(Timestep)
    \/ throw_package
    \/ \E overlaps \in SUBSET possible_overlaps : check_for_collisions(overlaps)
    \/ \E overflow_checks \in BOOLEAN : pickup_package(overflow_checks)
    \/ collect_packages_on_outgoing_conveyors
    \/ \E delivered \in SUBSET deliverable, overflow_checks \in BOOLEAN :
          check_for_delivered_packages(delivered, overflow_checks)
    \/ apply_deferred

SpecGame == InitGame /\ [][NextGame]_vars

-----------------------------------------------------------------------------
(* Properties of the game's systems *)

\* What pressed must be for action a of player p, read off the devices: the
\* mapped key, or, with a gamepad bound, its mapped button or its mapped
\* axis beyond the threshold of one half.
ExpectedPressed(p, a) ==
    LET m == ControlMapping(p)[a]
        pad == player_controls[p].pad
    IN \/ m.keyboard_key \in input_devices.keys
       \/ /\ pad # NoPad
          /\ \/ << pad, m.gamepad_button >> \in input_devices.buttons
             \/ /\ << pad, m.gamepad_axis >> \in DOMAIN input_devices.axes
                /\ IF a \in { "move_down", "move_left" }
                   THEN input_devices.axes[<< pad, m.gamepad_axis >>] < -5
                   ELSE input_devices.axes[<< pad, m.gamepad_axis >>] > 5

UpdatesControls == gpc = "update_controller_mappings" /\ gpc' = "spawn_package_wave"

\* C30: button edge detection.  In every run of update_controller_mappings
\* each button's state_changed_this_frame is true exactly when its pressed
\* value differs from the value it had after the previous run (no other
\* system writes it); just_pressed and just_released are never both true;
\* and pressed is the OR of the keyboard key and, only when a gamepad is
\* bound to the player, the gamepad button and the axis threshold test.
C30_ButtonEdges ==
    /\ [](\A p \in DOMAIN player_controls : \A a \in KeyActions :
            ~(just_pressed(player_controls[p].state[a])
              /\ just_released(player_controls[p].state[a])))
    /\ [][ \A p \in DOMAIN player_controls : \A a \in KeyActions :
             IF UpdatesControls
             THEN /\ player_controls'[p].state[a].state_changed_this_frame
                       = (player_controls'[p].state[a].pressed
                            # player_controls[p].state[a].pressed)
                  /\ player_controls'[p].state[a].pressed = ExpectedPressed(p, a)
             ELSE player_controls'[p].state = player_controls[p].state ]_vars

\* After a run: Player1, bound to G1, has just pressed move_up through the
\* stick alone and has just released nothing; Player2 has no gamepad and
\* the pressed button of the unbound G2 does not count for them.
C30_Witness ==
    /\ gpc = "spawn_package_wave"
    /\ player_controls["Player1"].pad = "G1"
    /\ just_pressed(player_controls["Player1"].state["move_up"])
    /\ "W" \notin input_devices.keys
    /\ << "G1", "DPadUp" >> \notin input_devices.buttons
    /\ player_controls["Player2"].pad = NoPad
    /\ << "G2", "DPadUp" >> \in input_devices.buttons
    /\ ~player_controls["Player2"].state["move_up"].pressed

\* C29: the supervisor cycle.  Exactly one of monitoring_timer and
\* distracted_timer is unpaused at any time; the supervisor starts
\* monitoring, turns distracted exactly in the run in which monitoring_timer
\* finishes and turns back exactly in the run in which distracted_timer
\* finishes; with update_supervisor running in every FixedUpdate the two
\* phases alternate forever.
C29_SupervisorCycle ==
    /\ monitoring(supervisor)
    /\ [](paused(supervisor.monitoring_timer) # paused(supervisor.distracted_timer))
    /\ [][ /\ (monitoring(supervisor) /\ ~monitoring(supervisor'))
                 <=> just_finished(supervisor'.monitoring_timer)
           /\ (~monitoring(supervisor) /\ monitoring(supervisor'))
                 <=> just_finished(supervisor'.distracted_timer) ]_vars
    /\ []<>monitoring(supervisor)
    /\ []<>(~monitoring(supervisor))

\* The supervisor monitors again after a whole distracted phase: the
\* distracted timer has run out and is paused, the monitoring timer runs.
C29_Witness ==
    /\ monitoring(supervisor)
    /\ supervisor.facing_direction = "Down"
    /\ finished(supervisor.distracted_timer)
    /\ paused(supervisor.distracted_timer)
    /\ ~paused(supervisor.monitoring_timer)
    /\ supervisor.monitoring_timer.elapsed > 0

\* The number of packages a step of check_for_delivered_packages delivers to
\* player p: the drop of the package_count of p's Outgoing conveyor.
Delivered(p) ==
    LET c == CHOOSE d \in OutgoingConveyors : ConveyorLabel(d).player_index = p
    IN IF c \in DOMAIN conveyors /\ gpc = "check_for_delivered_packages"
          /\ gpc' = "apply_deferred"
       THEN conveyors[c].package_count - conveyors'[c].package_count
       ELSE 0

\* What C28 says of one step for player p: the score grows by the base
\* score times the multiplier held before each delivery, each delivery
\* raises the multiplier by the increase and resets the freeze timer; the
\* multiplier falls only when the freeze timer is finished; the score does
\* not fall.
ScoreStep(p) ==
    LET old == player_scores[p]
        new == player_scores'[p]
        n == Delivered(p)
        base == score_config.base_score_value
        inc == score_config.multiplier_increase_per_package
    IN /\ n > 0 =>
            /\ new.score = old.score
                   + base * (n * old.multiplier + inc * ((n * (n - 1)) \div 2))
            /\ new.multiplier = old.multiplier + n * inc
            /\ new.multiplier >= old.multiplier
            /\ ~finished(new.multiplier_decrement_freeze_timer)
            /\ new.multiplier_decrement_freeze_timer.elapsed = 0
       /\ n = 0 => new.score = old.score
       /\ new.multiplier < old.multiplier =>
            finished(new.multiplier_decrement_freeze_timer)
       /\ new.score >= old.score

NonNegativeRates ==
    /\ score_config.multiplier_increase_per_package >= 0
    /\ score_config.multiplier_decrease_per_second >= 0

\* C28 as stated: with a non-negative increase per package and a
\* non-negative decrease rate, every multiplier is at least 1 in every
\* reachable state, decays only while the freeze timer is finished, each
\* delivery adds base score times the multiplier held before it, raises the
\* multiplier and resets the freeze timer, and no score ever decreases.
C28_ScoreBoundsAsStated ==
    /\ [](NonNegativeRates =>
            \A p \in DOMAIN player_scores :
                player_scores[p].multiplier >= UnitMultiplier)
    /\ [][ NonNegativeRates => \A p \in DOMAIN player_scores : ScoreStep(p) ]_vars

\* C28, amended: the same with a non-negative base score as well.
C28_ScoreBounds ==
    /\ [](NonNegativeRates /\ score_config.base_score_value >= 0 =>
            \A p \in DOMAIN player_scores :
                player_scores[p].multiplier >= UnitMultiplier)
    /\ [][ NonNegativeRates /\ score_config.base_score_value >= 0 =>
             \A p \in DOMAIN player_scores : ScoreStep(p) ]_vars

\* Player1 has had two packages delivered in one run under the game's
\* values (5 * 1.0 + 5 * 1.1 points), the freeze has run out and the
\* multiplier has decayed from 1.2 to 1.1.
C28_Witness ==
    /\ score_config = DefaultScoreConfig
    /\ player_scores["Player1"].score = 105
    /\ player_scores["Player1"].multiplier = 11
    /\ finished(player_scores["Player1"].multiplier_decrement_freeze_timer)

\* Every collision event of this run is between a player who holds nothing
\* and has just pressed pickup_or_throw and an Incoming conveyor without a
\* package child.
OnlyEmptyConveyorPickups ==
    /\ collision_events # << >>
    /\ \A i \in DOMAIN collision_events :
          LET p == event_entity(collision_events[i], Players)
              c == event_entity(collision_events[i],
                                { d \in Conveyors : is_incoming(d) })
          IN /\ p # NoEntity /\ c # NoEntity
             /\ wants_to_pickup(p)
             /\ package_children(p) = << >>
             /\ package_children(c) = << >>

\* C26: when a player who holds nothing has just pressed pickup while
\* colliding with an Incoming conveyor that has no package child,
\* pickup_package picks nothing up, changes no state and completes normally.
C26_EmptyConveyorPickup ==
    [][ (gpc = "pickup_package" /\ OnlyEmptyConveyorPickups) =>
          /\ ~panicked'
          /\ gpc' = "collect_packages_on_outgoing_conveyors"
          /\ UNCHANGED << conveyors, packages, players, commands >> ]_vars

\* The deferred commands of the last run of FixedUpdate have been applied.
CommandsApplied == gpc = FirstSystem /\ commands = << >>

\* C25: conveyor bookkeeping.  Once a frame's deferred commands are applied,
\* each conveyor's package_count equals the number of package entities that
\* are children of that conveyor, and no package_count has been decremented
\* below zero (it has not wrapped to usize::MAX).
C25_ConveyorBookkeeping ==
    CommandsApplied =>
        \A c \in Conveyors :
            /\ conveyors[c].package_count = Len(package_children(c))
            /\ conveyors[c].package_count # UsizeMax

\* C27: the held-package layer.  A package's Multi layer set always contains
\* Object, and at the end of every frame it contains HeldObject exactly when
\* the package is the child of a player, so that its base depth is 21 while
\* held and 2 otherwise.
C27_HeldPackageLayer ==
    \A k \in spawned_packages :
        /\ "Object" \in packages[k].layers
        /\ CommandsApplied =>
              /\ ("HeldObject" \in packages[k].layers) <=> (packages[k].parent \in Players)
              /\ as_z_coordinate(Multi(packages[k].layers))
                    = IF packages[k].parent \in Players THEN 21 ELSE 2

\* The add_child commands pickup_package has queued for player p.
PickupsQueued(p) ==
    SelectSeq(commands, LAMBDA cmd : cmd.op = "add_child" /\ cmd.parent = p)

\* C24: a player who already holds a package does not pick up another.  At
\* any time each player has at most one package as a child, pickup_package
\* queues no pickup for a player who holds a package and at most one pickup
\* per player and run, and a package held by one player never passes to the
\* other player.
C24_OnePackagePerPlayer ==
    /\ [](\A p \in Players :
            /\ Len(package_children(p)) <= 1
            /\ Len(PickupsQueued(p)) <= 1
            /\ package_children(p) # << >> => PickupsQueued(p) = << >>)
    /\ [][ \A k \in PackageIds :
             (packages[k].spawned /\ packages[k].parent \in Players /\ packages'[k].spawned)
               => packages'[k].parent \in { packages[k].parent, NoEntity } ]_vars

\* pickup_package has just run: Player1 holds Pkg1, pressed pickup again
\* while touching Pkg2 (two collision events), and was given nothing, while
\* Player2 picked Pkg2 up in the same run.
C24_Witness ==
    /\ gpc = "collect_packages_on_outgoing_conveyors"
    /\ packages["Pkg1"].parent = "Player1"
    /\ wants_to_pickup("Player1") /\ wants_to_pickup("Player2")
    /\ \E i, j \in DOMAIN collision_events :
          /\ collision_events[i] = << "Player1", "Pkg2" >>
          /\ collision_events[j] = << "Pkg2", "Player1" >>
    /\ PickupsQueued("Player1") = << >>
    /\ PickupsQueued("Player2") = << Command("add_child", "Player2", "Pkg2") >>

\* spawn_package_wave finds package_wave_timer finished and spawns a wave:
\* the only step that pauses the running timer.
WaveStep ==
    /\ gpc = "spawn_package_wave"
    /\ ~paused(package_wave_timer)
    /\ paused(package_wave_timer')

\* The packages of an Incoming conveyor that no player has removed.
UnremovedPackages(c) ==
    { k \in spawned_packages : packages[k].parent = c /\ packages[k].untouched }

\* C23: wave gating.  A step that spawns a wave leaves package_wave_timer
\* reset and paused; the timer is unpaused only by update_conveyors, in a run
\* in which no Incoming conveyor is active and every Incoming conveyor has
\* package_count = 0; and no wave after the first is spawned while an
\* Incoming conveyor is still running or still has packages the players have
\* not removed.
C23_WaveGating ==
    [][ /\ WaveStep =>
              /\ package_wave_timer'.elapsed = 0
              /\ ~finished(package_wave_timer')
        /\ (paused(package_wave_timer) /\ ~paused(package_wave_timer')) =>
              /\ gpc = "update_conveyors"
              /\ \A c \in Conveyors :
                    is_incoming(c) =>
                        /\ ~conveyor_active(conveyors'[c])
                        /\ conveyors'[c].package_count = 0
        /\ (WaveStep /\ wave_spawned) =>
              \A c \in Conveyors :
                  is_incoming(c) =>
                      /\ ~conveyor_active(conveyors[c])
                      /\ UnremovedPackages(c) = {} ]_vars

====
